---- MODULE Spec2Model ----
(***************************************************************************)
(* Model of the two notebooks under Labs/Oxford/Day 3-4:                   *)
(*   CGANs_Faces.ipynb             CelebADataset, the conditional          *)
(*                                 Generator / Discriminator, the training *)
(*                                 loop and the sampling cells;            *)
(*   Image_Generation_EX1_MNIST    train_gan.                              *)
(* Tensors are modelled by what the claims read of them: their shape, the  *)
(* autograd graph they hang from (the set of networks whose parameters a   *)
(* backward() through them reaches), and the identity of the random draw   *)
(* or forward pass that produced them.                                     *)
(***************************************************************************)
EXTENDS Integers, Sequences, FiniteSets, TLC

(* ------------------------------ bounds --------------------------------- *)
\* rows of list_attr_celeba.csv (the real file has 202599)
MaxRows == 6
\* image files that are absent when the dataset is built
MaxMissing == 1
\* image files removed after the dataset was built
MaxDeletes == 1
\* the alternative contents of the attribute file
NumTables == 2
\* EPOCHS = 5, BATCH_SIZE = 128, max_samples = 40000 in the notebook; as there
\* (40000 = 312 * 128 + 64) a full dataset ends its epoch on a short batch of
\* more than one image
EPOCHS == 2
BATCH_SIZE == 3
max_samples == 5
\* num_epochs = 50 in the call of train_gan
num_epochs == 2
\* batch sizes tried on the generator alone and on the discriminator alone
MaxShapeBatch == 8
\* square image sizes tried on the discriminator alone (the transform of the
\* notebook only ever yields IMAGE_SIZE)
MaxImageSize == 96

(* -------------------------- program constants -------------------------- *)
Z == 100
IMAGE_SIZE == 64
NUM_ATTRIBUTES == 5
attr_embedding_size == 5
real_label == 1
fake_label_mut == real_label
fake_label == 0
\* the visualisation cell draws cols * rows = 7 samples
viz_cols == 7
\* the fixed sample batch has 10 rows
NumSamples == 10

(* ------------------------------ helpers -------------------------------- *)
Range(s) == {s[k] : k \in 1..Len(s)}

Min(a, b) == IF a < b THEN a ELSE b

RECURSIVE Prod(_)
Prod(s) == IF s = <<>> THEN 1 ELSE Head(s) * Prod(Tail(s))

\* s[a..b] as a sequence
Slice(s, a, b) == [k \in 1..(b - a + 1) |-> s[a + k - 1]]

\* the n rotations of 1..n: the orders the shuffling sampler is drawn from
Rotation(n, r) == [k \in 1..n |-> ((k + r - 1) % n) + 1]

NoTensor == [kind |-> "none"]

(* ------------------------------ state ---------------------------------- *)
VARIABLES
    \* the file system
    csvExists,      \* list_attr_celeba.csv is there
    csvRows,        \* its rows: row k has image_id k and these attribute columns
    imgOnDisk,      \* the image ids present under img_align_celeba
    deletes,        \* images removed since the dataset was built
    \* the notebook
    pc, err,
    \* CelebADataset
    attr_df, rowIdx, count, image_files, attributes, skipped,
    vizI,
    \* the training cell
    i, order, pos, fetched,
    inputs, conditions, label, noise, fake, output,
    errD_real, errD_fake, errD, errG,
    gradD, gradG, dSteps, gSteps, genPasses, rng,
    calls, stepLog, G_losses, D_losses,
    sample_noise, sample_conditions, generations, shown,
    \* train_gan of the MNIST notebook
    m,
    \* a network's layers applied one at a time
    sh

dsVars == <<attr_df, rowIdx, count, image_files, attributes, skipped>>
fsVars == <<csvExists, csvRows, imgOnDisk, deletes>>
loopVars == <<i, order, pos, fetched>>
tensorVars == <<inputs, conditions, label, noise, fake, output>>
lossVars == <<errD_real, errD_fake, errD, errG>>
optVars == <<gradD, gradG, dSteps, gSteps>>
histVars == <<calls, stepLog, G_losses, D_losses>>
sampleVars == <<sample_noise, sample_conditions, generations, shown>>
vars == <<fsVars, pc, err, dsVars, vizI, loopVars, tensorVars, lossVars, optVars,
          genPasses, rng, histVars, sampleVars, m, sh>>

(* ------------------------- the framework's layers ---------------------- *)
\* A forward pass yields a shape, or the exception the layer raises.
Ok(shape) == [ok |-> TRUE, shape |-> shape, err |-> "none"]
Raise(e) == [ok |-> FALSE, shape |-> <<>>, err |-> e]

Layer(op, args) == [op |-> op, args |-> args]

\* nn.Linear(in_features, out_features)
Linear(x, in_features, out_features) ==
    IF Len(x) >= 1 /\ x[Len(x)] = in_features
    THEN Ok([x EXCEPT ![Len(x)] = out_features])
    ELSE Raise("RuntimeError")

\* nn.BatchNorm1d / nn.BatchNorm2d(num_features): in training mode the batch
\* statistics need more than one value per channel
BatchNorm(x, num_features, training) ==
    IF Len(x) < 2 \/ x[2] # num_features THEN Raise("RuntimeError")
    ELSE IF training /\ x[1] * Prod(SubSeq(x, 3, Len(x))) = 1 THEN Raise("ValueError")
    ELSE Ok(x)

\* x.view(*shape) with one -1 in first place
View(x, shape) ==
    LET rest == Prod(Tail(shape)) IN
    IF rest > 0 /\ Prod(x) % rest = 0
    THEN Ok(<<Prod(x) \div rest>> \o Tail(shape))
    ELSE Raise("RuntimeError")

ConvTranspose2dSizeMut(h, kernel, stride, padding) == (h - 1) * stride + kernel

\* nn.ConvTranspose2d(cin, cout, kernel, stride, padding)
ConvTranspose2dSize(h, kernel, stride, padding) == (h - 1) * stride - 2 * padding + kernel

ConvTranspose2d(x, cin, cout, kernel, stride, padding) ==
    IF Len(x) # 4 \/ x[2] # cin THEN Raise("RuntimeError")
    ELSE LET h == ConvTranspose2dSize(x[3], kernel, stride, padding)
             w == ConvTranspose2dSize(x[4], kernel, stride, padding)
         IN IF h > 0 /\ w > 0 THEN Ok(<<x[1], cout, h, w>>) ELSE Raise("RuntimeError")

Conv2dSizeMut(h, kernel, stride, padding) == (h + 2 * padding - kernel) \div stride

\* nn.Conv2d(cin, cout, kernel, stride, padding)
Conv2dSize(h, kernel, stride, padding) == ((h + 2 * padding - kernel) \div stride) + 1

Conv2d(x, cin, cout, kernel, stride, padding) ==
    IF Len(x) # 4 \/ x[2] # cin \/ x[3] + 2 * padding < kernel \/ x[4] + 2 * padding < kernel
    THEN Raise("RuntimeError")
    ELSE Ok(<<x[1], cout, Conv2dSize(x[3], kernel, stride, padding),
              Conv2dSize(x[4], kernel, stride, padding)>>)

\* nn.Flatten()
Flatten(x) == IF Len(x) < 2 THEN Ok(x) ELSE Ok(<<x[1], Prod(Tail(x))>>)

\* nn.Embedding(num_embeddings, dim) on a column of indices
Embedding(column, num_embeddings, dim) ==
    IF \A k \in 1..Len(column) : column[k] \in 0..(num_embeddings - 1)
    THEN Ok(<<Len(column), dim>>)
    ELSE Raise("IndexError")

RECURSIVE SumDim1(_)
SumDim1(shapes) == IF shapes = <<>> THEN 0 ELSE Head(shapes)[2] + SumDim1(Tail(shapes))

\* torch.cat(tensors, dim=1) of two-dimensional tensors
Cat1(shapes) ==
    IF \A k \in 1..Len(shapes) : Len(shapes[k]) = 2 /\ shapes[k][1] = shapes[1][1]
    THEN Ok(<<shapes[1][1], SumDim1(shapes)>>)
    ELSE Raise("RuntimeError")

ApplyLayer(l, x, training) ==
    CASE l.op = "Linear" -> Linear(x, l.args[1], l.args[2])
      [] l.op = "BatchNorm" -> BatchNorm(x, l.args[1], training)
      [] l.op = "Reshape" -> View(x, l.args)
      [] l.op = "ConvTranspose2d" ->
            ConvTranspose2d(x, l.args[1], l.args[2], l.args[3], l.args[4], l.args[5])
      [] l.op = "Conv2d" -> Conv2d(x, l.args[1], l.args[2], l.args[3], l.args[4], l.args[5])
      [] l.op = "Flatten" -> Flatten(x)
      [] OTHER -> Ok(x)   \* ReLU, LeakyReLU, Tanh, Sigmoid keep the shape

\* nn.Sequential: the layers in order, stopping at the first exception
RECURSIVE Sequential(_, _, _)
Sequential(layers, r, training) ==
    IF layers = <<>> \/ ~r.ok THEN r
    ELSE Sequential(Tail(layers), ApplyLayer(Head(layers), r.shape, training), training)

(* ----------------------------- the networks ---------------------------- *)
total_attr_embedding_size == NUM_ATTRIBUTES * attr_embedding_size

gen_model ==
    << Layer("Linear", <<Z + total_attr_embedding_size, 512 * 4 * 4>>),
       Layer("BatchNorm", <<512 * 4 * 4>>),
       Layer("ReLU", <<>>),
       Layer("Reshape", <<-1, 512, 4, 4>>),
       Layer("ConvTranspose2d", <<512, 256, 4, 2, 1>>),
       Layer("BatchNorm", <<256>>),
       Layer("ReLU", <<>>),
       Layer("ConvTranspose2d", <<256, 128, 4, 2, 1>>),
       Layer("BatchNorm", <<128>>),
       Layer("ReLU", <<>>),
       Layer("ConvTranspose2d", <<128, 64, 4, 2, 1>>),
       Layer("BatchNorm", <<64>>),
       Layer("ReLU", <<>>),
       Layer("ConvTranspose2d", <<64, 3, 4, 2, 1>>),
       Layer("Tanh", <<>>) >>

image_feature_extractor ==
    << Layer("Conv2d", <<3, 64, 4, 2, 1>>),
       Layer("LeakyReLU", <<>>),
       Layer("Conv2d", <<64, 128, 4, 2, 1>>),
       Layer("BatchNorm", <<128>>),
       Layer("LeakyReLU", <<>>),
       Layer("Conv2d", <<128, 256, 4, 2, 1>>),
       Layer("BatchNorm", <<256>>),
       Layer("LeakyReLU", <<>>),
       Layer("Conv2d", <<256, 512, 4, 2, 1>>),
       Layer("BatchNorm", <<512>>),
       Layer("LeakyReLU", <<>>),
       Layer("Flatten", <<>>) >>

classifier ==
    << Layer("Linear", <<512 * 4 * 4 + total_attr_embedding_size, 512>>),
       Layer("LeakyReLU", <<>>),
       Layer("Linear", <<512, 1>>),
       Layer("Sigmoid", <<>>) >>

\* conditions[:, a]: column a of a batch of attribute vectors
Column(conds, a) == [k \in 1..Len(conds) |-> conds[k][a]]

\* the loop over self.condition_embeddings followed by torch.cat(condition_embeds, dim=1)
RECURSIVE EmbedColumns(_, _, _)
EmbedColumns(conds, a, acc) ==
    IF a > NUM_ATTRIBUTES THEN Cat1(acc)
    ELSE LET e == Embedding(Column(conds, a), 2, attr_embedding_size)
         IN IF e.ok THEN EmbedColumns(conds, a + 1, Append(acc, e.shape)) ELSE e

\* Generator.forward(x, conditions): x is the noise shape, conds the attribute rows
GeneratorForward(x, conds, training) ==
    LET condition_embed == EmbedColumns(conds, 1, <<>>) IN
    IF ~condition_embed.ok THEN condition_embed
    ELSE LET combined_input == Cat1(<<x, condition_embed.shape>>)
         IN Sequential(gen_model, combined_input, training)

\* Discriminator.forward(x, conditions)
DiscriminatorForward(x, conds, training) ==
    LET image_features == Sequential(image_feature_extractor, Ok(x), training) IN
    IF ~image_features.ok THEN image_features
    ELSE LET condition_embed == EmbedColumns(conds, 1, <<>>) IN
         IF ~condition_embed.ok THEN condition_embed
         ELSE LET combined_features == Cat1(<<image_features.shape, condition_embed.shape>>)
                  out == Sequential(classifier, combined_features, training)
              IN IF ~out.ok THEN out
                 ELSE \* output.view(-1, 1).squeeze(1)
                      LET v == View(out.shape, <<-1, 1>>)
                      IN IF v.ok THEN Ok(<<v.shape[1]>>) ELSE v

(* ------------------------------ the files ------------------------------ *)
\* the selected attribute columns of row r in the t-th alternative attribute file:
\* each column holds -1 or 1
AttrOfRow(t, r) ==
    [a \in 1..NUM_ATTRIBUTES |-> IF (r * t + a) % (t + 1) = 0 THEN 1 ELSE -1]

CsvTable(t, n) == [r \in 1..n |-> AttrOfRow(t, r)]

(* ---------------------------- CelebADataset ---------------------------- *)
\* (row[attr] + 1) // 2
ConvertAttrMut(v) == v + 1
ConvertAttr(v) == (v + 1) \div 2

\* attrs = [(row[attr] + 1) // 2 for attr in self.selected_attributes]
ConvertRow(row) == [a \in 1..NUM_ATTRIBUTES |-> ConvertAttr(row[a])]

getitemMut(idx) ==
    [ok |-> TRUE, image |-> image_files[idx], attributes |-> attributes[idx]]

\* CelebADataset.__getitem__(idx): Image.open raises when the file is gone;
\* the transform resizes every image to IMAGE_SIZE x IMAGE_SIZE with 3 channels
getitem(idx) ==
    IF image_files[idx] \in imgOnDisk
    THEN [ok |-> TRUE, image |-> image_files[idx], attributes |-> attributes[idx]]
    ELSE [ok |-> FALSE, image |-> image_files[idx], attributes |-> <<>>]

\* CelebADataset.__len__
len == Len(image_files)

Init ==
    /\ csvExists \in BOOLEAN
    /\ \E t \in 1..NumTables, n \in 0..MaxRows :
          /\ csvRows = IF csvExists THEN CsvTable(t, n) ELSE <<>>
          /\ \E missing \in SUBSET (1..n) :
                /\ Cardinality(missing) <= MaxMissing
                /\ imgOnDisk = IF csvExists THEN (1..n) \ missing ELSE {}
    /\ deletes = 0
    /\ pc = "ds_read_csv"
    /\ err = "none"
    /\ attr_df = <<>> /\ rowIdx = 0 /\ count = 0
    /\ image_files = <<>> /\ attributes = <<>> /\ skipped = {}
    /\ vizI = 0
    /\ i = 0 /\ order = <<>> /\ pos = 0 /\ fetched = 0
    /\ inputs = NoTensor /\ conditions = <<>> /\ label = NoTensor
    /\ noise = NoTensor /\ fake = NoTensor /\ output = NoTensor
    /\ errD_real = NoTensor /\ errD_fake = NoTensor /\ errD = NoTensor /\ errG = NoTensor
    /\ gradD = {} /\ gradG = {} /\ dSteps = 0 /\ gSteps = 0
    /\ genPasses = 0 /\ rng = 0
    /\ calls = <<>> /\ stepLog = <<>> /\ G_losses = <<>> /\ D_losses = <<>>
    /\ sample_noise = NoTensor /\ sample_conditions = <<>>
    /\ generations = NoTensor /\ shown = <<>>
    /\ m = [pc |-> "off"]
    /\ sh = [pc |-> "off"]

\* an unhandled exception ends the run of the notebook
Fail(e) == pc' = "error" /\ err' = e

\* CelebADataset.__init__, up to the loop: pd.read_csv(attr_file)
ReadCsv ==
    /\ pc = "ds_read_csv"
    /\ IF csvExists
       THEN /\ attr_df' = csvRows
            /\ rowIdx' = 1
            /\ pc' = "ds_iter"
            /\ err' = err
       ELSE /\ Fail("FileNotFoundError")
            /\ UNCHANGED <<attr_df, rowIdx>>
    /\ count' = 0 /\ image_files' = <<>> /\ attributes' = <<>>
    /\ UNCHANGED <<fsVars, skipped, vizI, loopVars, tensorVars, lossVars, optVars,
                   genPasses, rng, histVars, sampleVars, m, sh>>

\* one turn of "for idx, row in self.attr_df.iterrows()"
DatasetRow ==
    /\ pc = "ds_iter"
    /\ IF rowIdx > Len(attr_df) \/ (max_samples # 0 /\ count >= max_samples)
       THEN /\ pc' = "loader"
            /\ UNCHANGED <<rowIdx, count, image_files, attributes, skipped>>
       ELSE /\ pc' = pc
            /\ rowIdx' = rowIdx + 1
            /\ IF rowIdx \in imgOnDisk    \* os.path.exists(img_path)
               THEN /\ image_files' = Append(image_files, rowIdx)
                    /\ attributes' = Append(attributes, ConvertRow(attr_df[rowIdx]))
                    /\ count' = count + 1
                    /\ skipped' = skipped
               ELSE /\ skipped' = skipped \cup {rowIdx}
                    /\ UNCHANGED <<image_files, attributes, count>>
    /\ UNCHANGED <<fsVars, err, attr_df, vizI, loopVars, tensorVars, lossVars, optVars,
                   genPasses, rng, histVars, sampleVars, m, sh>>

\* DataLoader(celeba_dataset, batch_size=BATCH_SIZE, shuffle=True): with an empty
\* dataset the sampler of some framework versions raises here, the others go on
CreateLoader ==
    /\ pc = "loader"
    /\ \E raises \in BOOLEAN :
          IF len = 0 /\ raises
          THEN Fail("ValueError") /\ vizI' = vizI
          ELSE pc' = "viz" /\ vizI' = 1 /\ err' = err
    /\ UNCHANGED <<fsVars, dsVars, loopVars, tensorVars, lossVars, optVars,
                   genPasses, rng, histVars, sampleVars, m, sh>>

\* one turn of the visualisation loop: celeba_dataset[torch.randint(len(...))]
Visualize ==
    /\ pc = "viz"
    /\ IF vizI > viz_cols
       THEN pc' = "setup" /\ UNCHANGED <<err, vizI>>
       ELSE IF len = 0
       THEN Fail("RuntimeError: random_ expects 'from' to be less than 'to'") /\ vizI' = vizI
       ELSE \E sample_idx \in 1..len :
               IF getitem(sample_idx).ok
               THEN vizI' = vizI + 1 /\ UNCHANGED <<pc, err>>
               ELSE Fail("FileNotFoundError") /\ vizI' = vizI
    /\ UNCHANGED <<fsVars, dsVars, loopVars, tensorVars, lossVars, optVars,
                   genPasses, rng, histVars, sampleVars, m, sh>>

\* the environment: an image of the dataset is removed after the dataset was built;
\* only the reads of the visualisation cell and of the loader see the disk, so the
\* removal is taken right before one of them
DeleteImage ==
    /\ pc \in {"viz", "fetch"}
    /\ deletes < MaxDeletes
    /\ \E img \in Range(image_files) \cap imgOnDisk :
          imgOnDisk' = imgOnDisk \ {img}
    /\ deletes' = deletes + 1
    /\ UNCHANGED <<csvExists, csvRows, pc, err, dsVars, vizI, loopVars, tensorVars,
                   lossVars, optVars, genPasses, rng, histVars, sampleVars, m, sh>>

(* --------------------------- tensors and autograd ---------------------- *)
\* torch.full((n,), value): a new tensor, version 0
Full(id, n, value) == [kind |-> "label", id |-> id, vals |-> [k \in 1..n |-> value], ver |-> 0]

\* label.fill_(value): the same tensor overwritten in place
Fill(t, value) == [t EXCEPT !.vals = [k \in 1..Len(t.vals) |-> value], !.ver = t.ver + 1]

\* tensor.detach(): the same values, cut from the graph
Detach(t) == [t EXCEPT !.graph = {}]

\* loss_fn(output, label) with loss_fn = nn.BCELoss(): the target is saved for backward
LossFn(name, out, target) ==
    [kind |-> "loss", name |-> name, n |-> fetched,
     target |-> target.vals, targetId |-> target.id, savedVer |-> target.ver,
     graph |-> out.graph, dver |-> out.dver, pass |-> out.pass,
     backward |-> FALSE, targetAtBackward |-> <<>>]

\* BCELoss refuses an input and a target of different sizes
LossShapesAgree(out, target) == out.shape = <<Len(target.vals)>>

\* the gradient a backward() of this loss adds to each parameter it reaches
Contribution(loss) == [loss |-> loss.name, n |-> loss.n]

\* the saved target was overwritten in place since the forward pass
SavedTensorStale(loss) == label.id = loss.targetId /\ label.ver # loss.savedVer

\* what autograd raises then
StaleError == "RuntimeError: modified by an inplace operation"

AfterBackward(loss) == [loss EXCEPT !.backward = TRUE, !.targetAtBackward = label.vals]

outerVars == <<fsVars, dsVars, vizI, m, sh>>

(* ------------------------------ the cells ------------------------------ *)
\* the literal of the cell that fixes the ten sample conditions
SampleConditionsLiteral ==
    << <<0, 0, 1, 0, 0>>, <<1, 0, 1, 0, 0>>, <<0, 1, 1, 0, 0>>, <<1, 1, 0, 0, 0>>,
       <<0, 0, 0, 1, 0>>, <<1, 0, 0, 1, 0>>, <<0, 0, 0, 0, 1>>, <<1, 0, 0, 0, 1>>,
       <<0, 1, 0, 0, 1>>, <<1, 1, 1, 1, 1>> >>

\* the cells that build the networks, the optimizers, sample_noise and sample_conditions
Setup ==
    /\ pc = "setup"
    /\ pc' = "train_begin"
    /\ rng' = rng + 1
    /\ sample_noise' = [kind |-> "noise", id |-> rng + 1, shape |-> <<NumSamples, Z>>]
    /\ sample_conditions' = SampleConditionsLiteral
    /\ UNCHANGED <<outerVars, err, loopVars, tensorVars, lossVars, optVars, genPasses,
                   histVars, generations, shown>>

\* G_losses = [], D_losses = [], discriminator.train(), generator.train()
TrainBegin ==
    /\ pc = "train_begin"
    /\ pc' = "epoch"
    /\ G_losses' = <<>> /\ D_losses' = <<>>
    /\ i' = 1
    /\ UNCHANGED <<outerVars, err, order, pos, fetched, tensorVars, lossVars, optVars,
                   genPasses, rng, calls, stepLog, sampleVars>>

\* for i in range(1, EPOCHS+1): pbar = tqdm(train_dataloader); the sampler draws
\* the order of the epoch
EpochStart ==
    /\ pc = "epoch"
    /\ IF i > EPOCHS
       THEN pc' = "final" /\ UNCHANGED <<order, pos>>
       ELSE /\ pc' = "fetch"
            /\ \E r \in 0..(len - 1) : order' = Rotation(len, r)
            /\ pos' = 1
    /\ UNCHANGED <<outerVars, err, i, fetched, tensorVars, lossVars, optVars,
                   genPasses, rng, histVars, sampleVars>>

\* the indices of the batch that starts at position p of the epoch's order
BatchIndices(p) == Slice(order, p, Min(p + BATCH_SIZE - 1, len))

\* for b, data in enumerate(pbar): inputs, conditions = data
Fetch ==
    /\ pc = "fetch"
    /\ IF pos > len
       THEN pc' = "sample" /\ UNCHANGED <<err, pos, fetched, inputs, conditions, calls>>
       ELSE LET idxs == BatchIndices(pos) IN
            IF \A k \in 1..Len(idxs) : getitem(idxs[k]).ok
            THEN /\ inputs' = [kind |-> "images",
                               ids |-> [k \in 1..Len(idxs) |-> getitem(idxs[k]).image],
                               shape |-> <<Len(idxs), 3, IMAGE_SIZE, IMAGE_SIZE>>,
                               graph |-> {}]
                 /\ conditions' = [k \in 1..Len(idxs) |-> getitem(idxs[k]).attributes]
                 /\ pos' = pos + BATCH_SIZE
                 /\ fetched' = fetched + 1
                 /\ calls' = <<>>
                 /\ pc' = "d_zero"
                 /\ err' = err
            ELSE /\ Fail("FileNotFoundError")
                 /\ UNCHANGED <<pos, fetched, inputs, conditions, calls>>
    /\ UNCHANGED <<outerVars, i, order, label, noise, fake, output, lossVars, optVars,
                   genPasses, rng, stepLog, G_losses, D_losses, sampleVars>>

DiscZeroGradMut ==
    /\ pc = "d_zero"
    /\ pc' = "d_label"
    /\ UNCHANGED <<outerVars, err, loopVars, tensorVars, lossVars, optVars,
                   genPasses, rng, histVars, sampleVars>>

\* discriminator.zero_grad()
DiscZeroGrad ==
    /\ pc = "d_zero"
    /\ pc' = "d_label"
    /\ gradD' = {}
    /\ UNCHANGED <<outerVars, err, loopVars, tensorVars, lossVars, gradG, dSteps, gSteps,
                   genPasses, rng, histVars, sampleVars>>

\* label = torch.full((inputs.shape[0],), real_label, ...)
MakeLabel ==
    /\ pc = "d_label"
    /\ pc' = "d_fwd_real"
    /\ label' = Full(fetched, inputs.shape[1], real_label)
    /\ UNCHANGED <<outerVars, err, loopVars, inputs, conditions, noise, fake, output,
                   lossVars, optVars, genPasses, rng, histVars, sampleVars>>

\* the forward pass of the discriminator on x with the conditions c
DiscOutput(x, c) ==
    [kind |-> "output", pass |-> IF x.kind = "fake" THEN x.pass ELSE 0,
     shape |-> DiscriminatorForward(x.shape, c, TRUE).shape,
     graph |-> {"D"} \cup x.graph, dver |-> dSteps]

Call(net, x, c) == [net |-> net, x |-> x.kind, conds |-> c]

\* output = discriminator(inputs, conditions)
DiscForwardReal ==
    /\ pc = "d_fwd_real"
    /\ calls' = Append(calls, Call("D", inputs, conditions))
    /\ IF DiscriminatorForward(inputs.shape, conditions, TRUE).ok
       THEN /\ output' = DiscOutput(inputs, conditions)
            /\ pc' = "d_loss_real"
            /\ err' = err
       ELSE /\ Fail(DiscriminatorForward(inputs.shape, conditions, TRUE).err)
            /\ output' = output
    /\ UNCHANGED <<outerVars, loopVars, inputs, conditions, label, noise, fake,
                   lossVars, optVars, genPasses, rng, stepLog, G_losses, D_losses,
                   sampleVars>>

\* errD_real = loss_fn(output, label)
LossReal ==
    /\ pc = "d_loss_real"
    /\ IF LossShapesAgree(output, label)
       THEN errD_real' = LossFn("real", output, label) /\ pc' = "d_bwd_real" /\ err' = err
       ELSE Fail("ValueError") /\ errD_real' = errD_real
    /\ UNCHANGED <<outerVars, loopVars, tensorVars, errD_fake, errD, errG, optVars,
                   genPasses, rng, histVars, sampleVars>>

\* errD_real.backward(); D_x = output.mean().item()
BackwardReal ==
    /\ pc = "d_bwd_real"
    /\ IF SavedTensorStale(errD_real)
       THEN Fail(StaleError) /\ UNCHANGED <<errD_real, gradD, gradG>>
       ELSE /\ errD_real' = AfterBackward(errD_real)
            /\ gradD' = IF "D" \in errD_real.graph
                        THEN gradD \cup {Contribution(errD_real)} ELSE gradD
            /\ gradG' = IF "G" \in errD_real.graph
                        THEN gradG \cup {Contribution(errD_real)} ELSE gradG
            /\ pc' = "d_noise"
            /\ err' = err
    /\ UNCHANGED <<outerVars, loopVars, tensorVars, errD_fake, errD, errG, dSteps, gSteps,
                   genPasses, rng, histVars, sampleVars>>

MakeNoiseMut ==
    /\ pc = "d_noise"
    /\ pc' = "g_fwd"
    /\ rng' = rng + 1
    /\ noise' = [kind |-> "noise", id |-> rng + 1, shape |-> <<BATCH_SIZE, Z>>]
    /\ UNCHANGED <<outerVars, err, loopVars, inputs, conditions, label, fake, output,
                   lossVars, optVars, genPasses, histVars, sampleVars>>

\* noise = torch.randn(inputs.shape[0], Z, device=device)
MakeNoise ==
    /\ pc = "d_noise"
    /\ pc' = "g_fwd"
    /\ rng' = rng + 1
    /\ noise' = [kind |-> "noise", id |-> rng + 1, shape |-> <<inputs.shape[1], Z>>]
    /\ UNCHANGED <<outerVars, err, loopVars, inputs, conditions, label, fake, output,
                   lossVars, optVars, genPasses, histVars, sampleVars>>

\* the conditions handed to the generator in the training loop
GenConditionsMut == Slice(sample_conditions, 1, Len(conditions))
GenConditions == conditions

\* fake = generator(noise, conditions)
GenForward ==
    /\ pc = "g_fwd"
    /\ calls' = Append(calls, Call("G", noise, GenConditions))
    /\ IF GeneratorForward(noise.shape, GenConditions, TRUE).ok
       THEN /\ fake' = [kind |-> "fake", pass |-> genPasses + 1, noise |-> noise.id,
                        conds |-> GenConditions,
                        shape |-> GeneratorForward(noise.shape, GenConditions, TRUE).shape,
                        graph |-> {"G"}, gver |-> gSteps]
            /\ genPasses' = genPasses + 1
            /\ pc' = "d_fill_fake"
            /\ err' = err
       ELSE /\ Fail(GeneratorForward(noise.shape, GenConditions, TRUE).err)
            /\ UNCHANGED <<fake, genPasses>>
    /\ UNCHANGED <<outerVars, loopVars, inputs, conditions, label, noise, output,
                   lossVars, optVars, rng, stepLog, G_losses, D_losses, sampleVars>>

\* label.fill_(fake_label)
FillFake ==
    /\ pc = "d_fill_fake"
    /\ pc' = "d_fwd_fake"
    /\ label' = Fill(label, fake_label)
    /\ UNCHANGED <<outerVars, err, loopVars, inputs, conditions, noise, fake, output,
                   lossVars, optVars, genPasses, rng, histVars, sampleVars>>

\* the fake batch as the discriminator step scores it: fake.detach()
FakeForDiscMut == fake
FakeForDisc == Detach(fake)

\* output = discriminator(fake.detach(), conditions)
DiscForwardFake ==
    /\ pc = "d_fwd_fake"
    /\ calls' = Append(calls, Call("D", FakeForDisc, conditions))
    /\ IF DiscriminatorForward(FakeForDisc.shape, conditions, TRUE).ok
       THEN /\ output' = DiscOutput(FakeForDisc, conditions)
            /\ pc' = "d_loss_fake"
            /\ err' = err
       ELSE /\ Fail(DiscriminatorForward(FakeForDisc.shape, conditions, TRUE).err)
            /\ output' = output
    /\ UNCHANGED <<outerVars, loopVars, inputs, conditions, label, noise, fake,
                   lossVars, optVars, genPasses, rng, stepLog, G_losses, D_losses,
                   sampleVars>>

\* errD_fake = loss_fn(output, label)
LossFake ==
    /\ pc = "d_loss_fake"
    /\ IF LossShapesAgree(output, label)
       THEN errD_fake' = LossFn("fake", output, label) /\ pc' = "d_bwd_fake" /\ err' = err
       ELSE Fail("ValueError") /\ errD_fake' = errD_fake
    /\ UNCHANGED <<outerVars, loopVars, tensorVars, errD_real, errD, errG, optVars,
                   genPasses, rng, histVars, sampleVars>>

\* errD_fake.backward(); D_G_z1 = output.mean().item()
BackwardFake ==
    /\ pc = "d_bwd_fake"
    /\ IF SavedTensorStale(errD_fake)
       THEN Fail(StaleError) /\ UNCHANGED <<errD_fake, gradD, gradG>>
       ELSE /\ errD_fake' = AfterBackward(errD_fake)
            /\ gradD' = IF "D" \in errD_fake.graph
                        THEN gradD \cup {Contribution(errD_fake)} ELSE gradD
            /\ gradG' = IF "G" \in errD_fake.graph
                        THEN gradG \cup {Contribution(errD_fake)} ELSE gradG
            /\ pc' = "d_sum"
            /\ err' = err
    /\ UNCHANGED <<outerVars, loopVars, tensorVars, errD_real, errD, errG, dSteps, gSteps,
                   genPasses, rng, histVars, sampleVars>>

\* errD = errD_real + errD_fake
SumLosses ==
    /\ pc = "d_sum"
    /\ pc' = "d_step"
    /\ errD' = [kind |-> "sum", n |-> fetched, of |-> {errD_real.name, errD_fake.name}]
    /\ UNCHANGED <<outerVars, err, loopVars, tensorVars, errD_real, errD_fake, errG,
                   optVars, genPasses, rng, histVars, sampleVars>>

\* optimizer_disc.step(): Adam applies the gradients the discriminator's parameters hold
OptimizerDiscStep ==
    /\ pc = "d_step"
    /\ pc' = "g_zero"
    /\ dSteps' = dSteps + 1
    /\ stepLog' = Append(stepLog, [opt |-> "disc", applied |-> gradD])
    /\ UNCHANGED <<outerVars, err, loopVars, tensorVars, lossVars, gradD, gradG, gSteps,
                   genPasses, rng, calls, G_losses, D_losses, sampleVars>>

\* generator.zero_grad()
GenZeroGrad ==
    /\ pc = "g_zero"
    /\ pc' = "g_fill_real"
    /\ gradG' = {}
    /\ UNCHANGED <<outerVars, err, loopVars, tensorVars, lossVars, gradD, dSteps, gSteps,
                   genPasses, rng, histVars, sampleVars>>

\* label.fill_(real_label)
FillReal ==
    /\ pc = "g_fill_real"
    /\ pc' = "g_fwd_d"
    /\ label' = Fill(label, real_label)
    /\ UNCHANGED <<outerVars, err, loopVars, inputs, conditions, noise, fake, output,
                   lossVars, optVars, genPasses, rng, histVars, sampleVars>>

\* the discriminator output the generator loss is computed from:
\* output = discriminator(fake, conditions), a forward pass made in the generator step
GenStepOutputMut == output
GenStepOutput == DiscOutput(fake, conditions)

\* output = discriminator(fake, conditions)
DiscForwardGen ==
    /\ pc = "g_fwd_d"
    /\ calls' = Append(calls, Call("D", fake, conditions))
    /\ IF DiscriminatorForward(fake.shape, conditions, TRUE).ok
       THEN /\ output' = GenStepOutput
            /\ pc' = "g_loss"
            /\ err' = err
       ELSE /\ Fail(DiscriminatorForward(fake.shape, conditions, TRUE).err)
            /\ output' = output
    /\ UNCHANGED <<outerVars, loopVars, inputs, conditions, label, noise, fake,
                   lossVars, optVars, genPasses, rng, stepLog, G_losses, D_losses,
                   sampleVars>>

\* errG = loss_fn(output, label)
LossGen ==
    /\ pc = "g_loss"
    /\ IF LossShapesAgree(output, label)
       THEN errG' = LossFn("gen", output, label) /\ pc' = "g_bwd" /\ err' = err
       ELSE Fail("ValueError") /\ errG' = errG
    /\ UNCHANGED <<outerVars, loopVars, tensorVars, errD_real, errD_fake, errD, optVars,
                   genPasses, rng, histVars, sampleVars>>

\* errG.backward(); D_G_z2 = output.mean().item()
BackwardGen ==
    /\ pc = "g_bwd"
    /\ IF SavedTensorStale(errG)
       THEN Fail(StaleError) /\ UNCHANGED <<errG, gradD, gradG>>
       ELSE /\ errG' = AfterBackward(errG)
            /\ gradD' = IF "D" \in errG.graph
                        THEN gradD \cup {Contribution(errG)} ELSE gradD
            /\ gradG' = IF "G" \in errG.graph
                        THEN gradG \cup {Contribution(errG)} ELSE gradG
            /\ pc' = "g_step"
            /\ err' = err
    /\ UNCHANGED <<outerVars, loopVars, tensorVars, errD_real, errD_fake, errD, dSteps,
                   gSteps, genPasses, rng, histVars, sampleVars>>

OptimizerGenStepMut ==
    /\ pc = "g_step"
    /\ pc' = "record"
    /\ UNCHANGED <<outerVars, err, loopVars, tensorVars, lossVars, optVars,
                   genPasses, rng, histVars, sampleVars>>

\* optimizer_gen.step(): Adam applies the gradients the generator's parameters hold
OptimizerGenStep ==
    /\ pc = "g_step"
    /\ pc' = "record"
    /\ gSteps' = gSteps + 1
    /\ stepLog' = Append(stepLog, [opt |-> "gen", applied |-> gradG])
    /\ UNCHANGED <<outerVars, err, loopVars, tensorVars, lossVars, gradD, gradG, dSteps,
                   genPasses, rng, calls, G_losses, D_losses, sampleVars>>

\* the bookkeeping of the batch with the sampling block inside the batch loop
RecordMut ==
    /\ pc = "record"
    /\ pc' = "fetch"
    /\ G_losses' = Append(G_losses, errG.n)
    /\ D_losses' = Append(D_losses, errD.n)
    /\ generations' =
          [kind |-> "fake", pass |-> genPasses + 1, noise |-> sample_noise.id,
           conds |-> sample_conditions,
           shape |-> GeneratorForward(sample_noise.shape, sample_conditions, TRUE).shape,
           graph |-> {}, gver |-> gSteps]
    /\ genPasses' = genPasses + 1
    /\ shown' = Append(shown, i)
    /\ UNCHANGED <<outerVars, err, loopVars, tensorVars, lossVars, optVars,
                   rng, calls, stepLog, sample_noise, sample_conditions>>

\* G_losses.append(errG.item()); D_losses.append(errD.item()); pbar.set_postfix(...)
Record ==
    /\ pc = "record"
    /\ pc' = "fetch"
    /\ G_losses' = Append(G_losses, errG.n)
    /\ D_losses' = Append(D_losses, errD.n)
    /\ UNCHANGED <<outerVars, err, loopVars, tensorVars, lossVars, optVars,
                   genPasses, rng, calls, stepLog, sampleVars>>

\* with torch.no_grad(): generations = generator(sample_noise, sample_conditions);
\* display_image_grid(...); then the next turn of the epoch loop
Sample ==
    /\ pc = "sample"
    /\ calls' = <<Call("G", sample_noise, sample_conditions)>>
    /\ IF GeneratorForward(sample_noise.shape, sample_conditions, TRUE).ok
       THEN /\ generations' =
                  [kind |-> "fake", pass |-> genPasses + 1, noise |-> sample_noise.id,
                   conds |-> sample_conditions,
                   shape |-> GeneratorForward(sample_noise.shape, sample_conditions, TRUE).shape,
                   graph |-> {}, gver |-> gSteps]
            /\ genPasses' = genPasses + 1
            /\ shown' = Append(shown, i)
            /\ i' = i + 1
            /\ pc' = "epoch"
            /\ err' = err
       ELSE /\ Fail(GeneratorForward(sample_noise.shape, sample_conditions, TRUE).err)
            /\ UNCHANGED <<generations, genPasses, shown, i>>
    /\ UNCHANGED <<outerVars, order, pos, fetched, tensorVars, lossVars, optVars, rng,
                   stepLog, G_losses, D_losses, sample_noise, sample_conditions>>

\* torch.randint(low, high, (rows, NUM_ATTRIBUTES)): every entry lies in low..high-1;
\* the draws tried are the matrices whose rows are all alike
Randint(low, high, rows) ==
    {[k \in 1..rows |-> v] : v \in [1..NUM_ATTRIBUTES -> low..(high - 1)]}

\* the last cell: fresh sample_noise, random sample_conditions, one generation
FinalCell ==
    /\ pc = "final"
    /\ rng' = rng + 1
    /\ sample_noise' = [kind |-> "noise", id |-> rng + 1, shape |-> <<2 * 5, Z>>]
    /\ \E c \in Randint(0, 2, 2 * 5) :
          /\ sample_conditions' = c
          /\ calls' = <<Call("G", sample_noise', c)>>
          /\ IF GeneratorForward(<<2 * 5, Z>>, c, TRUE).ok
             THEN /\ generations' =
                        [kind |-> "fake", pass |-> genPasses + 1, noise |-> rng + 1,
                         conds |-> c,
                         shape |-> GeneratorForward(<<2 * 5, Z>>, c, TRUE).shape,
                         graph |-> {}, gver |-> gSteps]
                  /\ genPasses' = genPasses + 1
                  /\ shown' = Append(shown, 0)
                  /\ pc' = "done"
                  /\ err' = err
             ELSE /\ Fail(GeneratorForward(<<2 * 5, Z>>, c, TRUE).err)
                  /\ UNCHANGED <<generations, genPasses, shown>>
    /\ UNCHANGED <<outerVars, loopVars, tensorVars, lossVars, optVars,
                   stepLog, G_losses, D_losses>>

Next ==
    \/ ReadCsv
    \/ DatasetRow
    \/ CreateLoader
    \/ Visualize
    \/ DeleteImage
    \/ Setup
    \/ TrainBegin
    \/ EpochStart
    \/ Fetch
    \/ DiscZeroGrad
    \/ MakeLabel
    \/ DiscForwardReal
    \/ LossReal
    \/ BackwardReal
    \/ MakeNoise
    \/ GenForward
    \/ FillFake
    \/ DiscForwardFake
    \/ LossFake
    \/ BackwardFake
    \/ SumLosses
    \/ OptimizerDiscStep
    \/ GenZeroGrad
    \/ FillReal
    \/ DiscForwardGen
    \/ LossGen
    \/ BackwardGen
    \/ OptimizerGenStep
    \/ Record
    \/ Sample
    \/ FinalCell

Spec == Init /\ [][Next]_vars

(* ------------------- train_gan of the MNIST notebook ------------------- *)
\* everything but the state of train_gan
notebookVars == <<fsVars, pc, err, dsVars, vizI, loopVars, tensorVars, lossVars, optVars,
                  genPasses, rng, histVars, sampleVars, sh>>

\* criterion(output, labels): one term, hanging from the graph of the output
Criterion(name, graph) == [terms |-> {[name |-> name, graph |-> graph]}, n |-> m.fetched]

NoLoss == [terms |-> {}, n |-> 0]

\* the gradients loss.backward() adds to the parameters of net
TermsReaching(loss, net) ==
    {[loss |-> t.name, n |-> loss.n] : t \in {u \in loss.terms : net \in u.graph}}

MnistState(n) ==
    [pc |-> "epoch", epoch |-> 0, N |-> n, pos |-> 0, fetched |-> 0, batch_size |-> 0,
     fake_graph |-> {}, passes |-> 0,
     real_loss |-> NoLoss, fake_loss |-> NoLoss, disc_loss |-> NoLoss, gen_loss |-> NoLoss,
     gradD |-> {}, gradG |-> {}, log |-> <<>>,
     gen_epoch_loss |-> 0, gen_losses |-> <<>>]

\* for epoch in range(num_epochs): gen_epoch_loss = 0; disc_epoch_loss = 0
MnistEpoch ==
    /\ m.pc = "epoch"
    /\ m' = IF m.epoch >= num_epochs
            THEN [m EXCEPT !.pc = "done"]
            ELSE [m EXCEPT !.pc = "fetch", !.pos = 1, !.gen_epoch_loss = 0]
    /\ UNCHANGED notebookVars

\* for batch_idx, (real_images, _) in enumerate(train_loader): batch_size, the
\* flattened real_images, real_labels and fake_labels
MnistFetch ==
    /\ m.pc = "fetch"
    /\ m' = IF m.pos > m.N
            THEN [m EXCEPT !.pc = "epoch_end"]
            ELSE [m EXCEPT !.pc = "d_zero",
                           !.batch_size = Min(m.pos + BATCH_SIZE - 1, m.N) - m.pos + 1,
                           !.pos = m.pos + BATCH_SIZE,
                           !.fetched = m.fetched + 1]
    /\ UNCHANGED notebookVars

\* disc_optimizer.zero_grad()
MnistDiscZeroGrad ==
    /\ m.pc = "d_zero"
    /\ m' = [m EXCEPT !.pc = "real", !.gradD = {}]
    /\ UNCHANGED notebookVars

\* real_output = discriminator(real_images); real_loss = criterion(real_output, real_labels)
MnistRealLoss ==
    /\ m.pc = "real"
    /\ m' = [m EXCEPT !.pc = "fake", !.real_loss = Criterion("real", {"D"})]
    /\ UNCHANGED notebookVars

\* the graph of the fake batch the discriminator step scores: generator(noise).detach()
MnistFakeForDisc == {}

\* noise = torch.randn(...); fake_images = generator(noise).detach();
\* fake_output = discriminator(fake_images); fake_loss = criterion(fake_output, fake_labels)
MnistFakeLoss ==
    /\ m.pc = "fake"
    /\ m' = [m EXCEPT !.pc = "d_bwd", !.passes = m.passes + 1,
                      !.fake_graph = MnistFakeForDisc,
                      !.fake_loss = Criterion("fake", {"D"} \cup MnistFakeForDisc)]
    /\ UNCHANGED notebookVars

\* disc_loss = real_loss + fake_loss; disc_loss.backward()
MnistDiscBackward ==
    /\ m.pc = "d_bwd"
    /\ LET disc_loss == [terms |-> m.real_loss.terms \cup m.fake_loss.terms, n |-> m.fetched]
       IN m' = [m EXCEPT !.pc = "d_step", !.disc_loss = disc_loss,
                         !.gradD = m.gradD \cup TermsReaching(disc_loss, "D"),
                         !.gradG = m.gradG \cup TermsReaching(disc_loss, "G")]
    /\ UNCHANGED notebookVars

\* disc_optimizer.step()
MnistDiscStep ==
    /\ m.pc = "d_step"
    /\ m' = [m EXCEPT !.pc = "g_zero",
                      !.log = Append(m.log, [opt |-> "disc", applied |-> m.gradD])]
    /\ UNCHANGED notebookVars

\* gen_optimizer.zero_grad()
MnistGenZeroGrad ==
    /\ m.pc = "g_zero"
    /\ m' = [m EXCEPT !.pc = "g_fwd", !.gradG = {}]
    /\ UNCHANGED notebookVars

\* noise = torch.randn(...); fake_images = generator(noise);
\* fake_output = discriminator(fake_images); gen_loss = criterion(fake_output, real_labels)
MnistGenLoss ==
    /\ m.pc = "g_fwd"
    /\ m' = [m EXCEPT !.pc = "g_bwd", !.passes = m.passes + 1, !.fake_graph = {"G"},
                      !.gen_loss = Criterion("gen", {"D", "G"})]
    /\ UNCHANGED notebookVars

\* gen_loss.backward()
MnistGenBackward ==
    /\ m.pc = "g_bwd"
    /\ m' = [m EXCEPT !.pc = "g_step",
                      !.gradD = m.gradD \cup TermsReaching(m.gen_loss, "D"),
                      !.gradG = m.gradG \cup TermsReaching(m.gen_loss, "G")]
    /\ UNCHANGED notebookVars

\* gen_optimizer.step()
MnistGenStep ==
    /\ m.pc = "g_step"
    /\ m' = [m EXCEPT !.pc = "acc",
                      !.log = Append(m.log, [opt |-> "gen", applied |-> m.gradG])]
    /\ UNCHANGED notebookVars

\* gen_epoch_loss += gen_loss.item(); disc_epoch_loss += disc_loss.item()
MnistAccumulate ==
    /\ m.pc = "acc"
    /\ m' = [m EXCEPT !.pc = "fetch", !.gen_epoch_loss = m.gen_epoch_loss + 1]
    /\ UNCHANGED notebookVars

\* the averages of the epoch appended to gen_losses and disc_losses
MnistEpochEnd ==
    /\ m.pc = "epoch_end"
    /\ m' = [m EXCEPT !.pc = "epoch", !.epoch = m.epoch + 1,
                      !.gen_losses = Append(m.gen_losses, m.gen_epoch_loss)]
    /\ UNCHANGED notebookVars

\* The two loops side by side on the same batches: the faces notebook with its
\* dataset built from n rows whose images are all there, at the top of the
\* training cell, and train_gan on a loader that cuts n items the same way.
InitPair ==
    /\ csvExists = TRUE
    /\ \E n \in 1..MaxRows :
          /\ csvRows = CsvTable(1, n)
          /\ imgOnDisk = 1..n
          /\ attr_df = csvRows
          /\ count = Min(n, max_samples)
          /\ rowIdx = count + 1
          /\ image_files = [k \in 1..count |-> k]
          /\ attributes = [k \in 1..count |-> ConvertRow(csvRows[k])]
          /\ m = MnistState(count)
    /\ skipped = {} /\ deletes = 0
    /\ pc = "train_begin" /\ err = "none"
    /\ vizI = viz_cols + 1
    /\ i = 0 /\ order = <<>> /\ pos = 0 /\ fetched = 0
    /\ inputs = NoTensor /\ conditions = <<>> /\ label = NoTensor
    /\ noise = NoTensor /\ fake = NoTensor /\ output = NoTensor
    /\ errD_real = NoTensor /\ errD_fake = NoTensor /\ errD = NoTensor /\ errG = NoTensor
    /\ gradD = {} /\ gradG = {} /\ dSteps = 0 /\ gSteps = 0
    /\ genPasses = 0 /\ rng = 1
    /\ calls = <<>> /\ stepLog = <<>> /\ G_losses = <<>> /\ D_losses = <<>>
    /\ sample_noise = [kind |-> "noise", id |-> 1, shape |-> <<NumSamples, Z>>]
    /\ sample_conditions = SampleConditionsLiteral
    /\ generations = NoTensor /\ shown = <<>>
    /\ sh = [pc |-> "off"]

NextPair ==
    \/ TrainBegin
    \/ EpochStart
    \/ Fetch
    \/ DiscZeroGrad
    \/ MakeLabel
    \/ DiscForwardReal
    \/ LossReal
    \/ BackwardReal
    \/ MakeNoise
    \/ GenForward
    \/ FillFake
    \/ DiscForwardFake
    \/ LossFake
    \/ BackwardFake
    \/ SumLosses
    \/ OptimizerDiscStep
    \/ GenZeroGrad
    \/ FillReal
    \/ DiscForwardGen
    \/ LossGen
    \/ BackwardGen
    \/ OptimizerGenStep
    \/ Record
    \/ Sample
    \/ MnistEpoch
    \/ MnistFetch
    \/ MnistDiscZeroGrad
    \/ MnistRealLoss
    \/ MnistFakeLoss
    \/ MnistDiscBackward
    \/ MnistDiscStep
    \/ MnistGenZeroGrad
    \/ MnistGenLoss
    \/ MnistGenBackward
    \/ MnistGenStep
    \/ MnistAccumulate
    \/ MnistEpochEnd

SpecPair == InitPair /\ [][NextPair]_vars

(* ------------- Generator.forward, one layer at a time ------------------ *)
otherVars == <<fsVars, pc, err, dsVars, vizI, loopVars, tensorVars, lossVars, optVars,
               genPasses, rng, histVars, sampleVars, m>>

\* a generator in training mode (the notebook never calls eval()) is handed a
\* (B, Z) noise batch and B attribute rows as the dataset converts them
InitShape ==
    /\ \E B \in 1..MaxShapeBatch, t \in 1..NumTables :
          sh = [pc |-> "embed", B |-> B, noise |-> <<B, Z>>,
                conds |-> [k \in 1..B |-> ConvertRow(AttrOfRow(t, k))],
                x |-> <<>>, prev |-> <<>>, layer |-> 0, err |-> "none"]
    /\ csvExists = FALSE /\ csvRows = <<>> /\ imgOnDisk = {} /\ deletes = 0
    /\ pc = "ds_read_csv" /\ err = "none"
    /\ attr_df = <<>> /\ rowIdx = 0 /\ count = 0
    /\ image_files = <<>> /\ attributes = <<>> /\ skipped = {}
    /\ vizI = 0
    /\ i = 0 /\ order = <<>> /\ pos = 0 /\ fetched = 0
    /\ inputs = NoTensor /\ conditions = <<>> /\ label = NoTensor
    /\ noise = NoTensor /\ fake = NoTensor /\ output = NoTensor
    /\ errD_real = NoTensor /\ errD_fake = NoTensor /\ errD = NoTensor /\ errG = NoTensor
    /\ gradD = {} /\ gradG = {} /\ dSteps = 0 /\ gSteps = 0
    /\ genPasses = 0 /\ rng = 0
    /\ calls = <<>> /\ stepLog = <<>> /\ G_losses = <<>> /\ D_losses = <<>>
    /\ sample_noise = NoTensor /\ sample_conditions = <<>>
    /\ generations = NoTensor /\ shown = <<>>
    /\ m = [pc |-> "off"]

ShapeStep(r, nextPc) ==
    IF r.ok
    THEN [sh EXCEPT !.pc = nextPc, !.prev = sh.x, !.x = r.shape, !.layer = sh.layer + 1]
    ELSE [sh EXCEPT !.pc = "error", !.err = r.err]

\* the embeddings of the attribute columns, concatenated
ShapeEmbed ==
    /\ sh.pc = "embed"
    /\ sh' = [ShapeStep(EmbedColumns(sh.conds, 1, <<>>), "cat") EXCEPT !.layer = 0]
    /\ UNCHANGED otherVars

\* combined_input = torch.cat([x, condition_embed], dim=1)
ShapeCat ==
    /\ sh.pc = "cat"
    /\ sh' = [ShapeStep(Cat1(<<sh.noise, sh.x>>), "layers") EXCEPT !.layer = 1]
    /\ UNCHANGED otherVars

\* the next layer of self.gen_model
ShapeLayer ==
    /\ sh.pc = "layers"
    /\ sh.layer <= Len(gen_model)
    /\ sh' = ShapeStep(ApplyLayer(gen_model[sh.layer], sh.x, TRUE), "layers")
    /\ UNCHANGED otherVars

\* return self.gen_model(combined_input)
ShapeReturn ==
    /\ sh.pc = "layers"
    /\ sh.layer > Len(gen_model)
    /\ sh' = [sh EXCEPT !.pc = "done"]
    /\ UNCHANGED otherVars

NextShape ==
    \/ ShapeEmbed
    \/ ShapeCat
    \/ ShapeLayer
    \/ ShapeReturn

SpecShape == InitShape /\ [][NextShape]_vars

(* ------------- Discriminator.forward, one layer at a time -------------- *)
\* a discriminator in training mode is handed a (B, 3, size, size) image batch
\* and B attribute rows as the dataset converts them
InitDisc ==
    /\ \E B \in 1..MaxShapeBatch, size \in 1..MaxImageSize, t \in 1..NumTables :
          sh = [pc |-> "features", B |-> B, size |-> size,
                conds |-> [k \in 1..B |-> ConvertRow(AttrOfRow(t, k))],
                x |-> <<B, 3, size, size>>, prev |-> <<>>, features |-> <<>>,
                layer |-> 1, err |-> "none"]
    /\ csvExists = FALSE /\ csvRows = <<>> /\ imgOnDisk = {} /\ deletes = 0
    /\ pc = "ds_read_csv" /\ err = "none"
    /\ attr_df = <<>> /\ rowIdx = 0 /\ count = 0
    /\ image_files = <<>> /\ attributes = <<>> /\ skipped = {}
    /\ vizI = 0
    /\ i = 0 /\ order = <<>> /\ pos = 0 /\ fetched = 0
    /\ inputs = NoTensor /\ conditions = <<>> /\ label = NoTensor
    /\ noise = NoTensor /\ fake = NoTensor /\ output = NoTensor
    /\ errD_real = NoTensor /\ errD_fake = NoTensor /\ errD = NoTensor /\ errG = NoTensor
    /\ gradD = {} /\ gradG = {} /\ dSteps = 0 /\ gSteps = 0
    /\ genPasses = 0 /\ rng = 0
    /\ calls = <<>> /\ stepLog = <<>> /\ G_losses = <<>> /\ D_losses = <<>>
    /\ sample_noise = NoTensor /\ sample_conditions = <<>>
    /\ generations = NoTensor /\ shown = <<>>
    /\ m = [pc |-> "off"]

\* the next layer of self.image_feature_extractor
DiscShapeFeature ==
    /\ sh.pc = "features"
    /\ sh.layer <= Len(image_feature_extractor)
    /\ sh' = ShapeStep(ApplyLayer(image_feature_extractor[sh.layer], sh.x, TRUE), "features")
    /\ UNCHANGED otherVars

\* image_features is kept; the embeddings of the attribute columns, concatenated
DiscShapeEmbed ==
    /\ sh.pc = "features"
    /\ sh.layer > Len(image_feature_extractor)
    /\ sh' = [ShapeStep(EmbedColumns(sh.conds, 1, <<>>), "cat")
                 EXCEPT !.features = sh.x, !.layer = 0]
    /\ UNCHANGED otherVars

\* combined_features = torch.cat([image_features, condition_embed], dim=1)
DiscShapeCat ==
    /\ sh.pc = "cat"
    /\ sh' = [ShapeStep(Cat1(<<sh.features, sh.x>>), "classifier") EXCEPT !.layer = 1]
    /\ UNCHANGED otherVars

\* the next layer of self.classifier
DiscShapeClassify ==
    /\ sh.pc = "classifier"
    /\ sh.layer <= Len(classifier)
    /\ sh' = ShapeStep(ApplyLayer(classifier[sh.layer], sh.x, TRUE), "classifier")
    /\ UNCHANGED otherVars

\* return output.view(-1, 1).squeeze(1)
DiscShapeReturn ==
    /\ sh.pc = "classifier"
    /\ sh.layer > Len(classifier)
    /\ LET v == View(sh.x, <<-1, 1>>)
       IN sh' = ShapeStep(IF v.ok THEN Ok(<<v.shape[1]>>) ELSE v, "done")
    /\ UNCHANGED otherVars

NextDisc ==
    \/ DiscShapeFeature
    \/ DiscShapeEmbed
    \/ DiscShapeCat
    \/ DiscShapeClassify
    \/ DiscShapeReturn

SpecDisc == InitDisc /\ [][NextDisc]_vars

(* ============================== the claims ============================= *)
\* the positions of one turn of the batch loop, from discriminator.zero_grad()
\* to the bookkeeping after optimizer_gen.step()
IterationPcs ==
    {"d_zero", "d_label", "d_fwd_real", "d_loss_real", "d_bwd_real", "d_noise", "g_fwd",
     "d_fill_fake", "d_fwd_fake", "d_loss_fake", "d_bwd_fake", "d_sum", "d_step",
     "g_zero", "g_fill_real", "g_fwd_d", "g_loss", "g_bwd", "g_step", "record"}

\* after discriminator.zero_grad() and up to optimizer_disc.step()
DiscStepPcs ==
    {"d_label", "d_fwd_real", "d_loss_real", "d_bwd_real", "d_noise", "g_fwd",
     "d_fill_fake", "d_fwd_fake", "d_loss_fake", "d_bwd_fake", "d_sum", "d_step"}

\* between two turns of the batch loop
BetweenIterations == pc \in {"record", "fetch", "epoch", "sample", "final", "done"}

AllOf(vals, v) == \A k \in 1..Len(vals) : vals[k] = v

\* C1: every batch iteration of the CelebA loop does exactly one optimizer_disc.step()
\* and then exactly one optimizer_gen.step(): the steps logged alternate disc, gen,
\* the count of discriminator steps minus the count of generator steps is always 0
\* or 1, and once an iteration has finished both counts equal the number of batches
\* fetched.
C1_Alternation ==
    /\ dSteps - gSteps \in {0, 1}
    /\ \A k \in 1..Len(stepLog) : stepLog[k].opt = IF k % 2 = 1 THEN "disc" ELSE "gen"
    /\ Len(stepLog) = dSteps + gSteps
    /\ BetweenIterations => (dSteps = gSteps /\ gSteps = fetched)
    /\ pc \in IterationPcs =>
          (dSteps = IF pc \in {"d_zero"} \cup DiscStepPcs THEN fetched - 1 ELSE fetched)

C1_Witness == pc = "record" /\ fetched = 2 /\ dSteps = 2 /\ gSteps = 2

\* C2: in the generator step the fake batch scored for the generator loss comes from
\* a generator forward pass other than the one whose fake batch the discriminator
\* step of the same iteration scored.
C2_NewFakeBatchForGenerator ==
    (errG.kind = "loss" /\ errD_fake.kind = "loss" /\ errG.n = errD_fake.n)
        => errG.pass # errD_fake.pass

\* C4: within one iteration the discriminator on the real batch, the generator, the
\* discriminator on the detached fakes and the discriminator in the generator step
\* are all handed the conditions tensor of the batch, which holds the attributes the
\* dataset stores for the images of that batch, unmodified.
C4_SameConditions ==
    pc \in IterationPcs =>
        /\ \A k \in 1..Len(calls) : calls[k].conds = conditions
        /\ Len(conditions) = Len(inputs.ids)
        /\ \A k \in 1..Len(conditions) :
              \E idx \in 1..len :
                  image_files[idx] = inputs.ids[k] /\ conditions[k] = attributes[idx]
        /\ pc = "record" =>
              /\ [k \in 1..Len(calls) |-> calls[k].net] = <<"D", "G", "D", "D">>
              /\ [k \in 1..Len(calls) |-> calls[k].x] = <<"images", "noise", "fake", "fake">>

C4_Witness ==
    /\ pc = "record" /\ Len(calls) = 4
    /\ conditions # Slice(sample_conditions, 1, Len(conditions))

\* C5: every attribute the dataset stores is 0 where the file holds -1 and 1 where it
\* holds 1, and every attribute value handed to Generator.forward or
\* Discriminator.forward (from a batch, from the fixed sample_conditions or from the
\* final random conditions) is 0 or 1, an index the two-row embeddings accept.
C5_BinaryAttributes ==
    /\ \A k \in 1..len : \A a \in 1..NUM_ATTRIBUTES :
          /\ attributes[k][a] \in {0, 1}
          /\ attributes[k][a] = IF attr_df[image_files[k]][a] = -1 THEN 0 ELSE 1
    /\ \A c \in 1..Len(calls) : \A k \in 1..Len(calls[c].conds) :
          \A a \in 1..NUM_ATTRIBUTES : calls[c].conds[k][a] \in 0..1
    /\ err # "IndexError"

C5_Witness ==
    /\ pc = "done"
    /\ \E k \in 1..len : \E a, b \in 1..NUM_ATTRIBUTES :
          /\ attr_df[image_files[k]][a] = -1 /\ attributes[k][a] = 0
          /\ attr_df[image_files[k]][b] = 1 /\ attributes[k][b] = 1
    /\ \E k \in 1..Len(sample_conditions) : \E a, b \in 1..NUM_ATTRIBUTES :
          sample_conditions[k][a] = 0 /\ sample_conditions[k][b] = 1

\* a loss, once computed, holds a target of this value, as long as its batch
\* and unchanged when its backward() ran
LossTargetOk(loss, value) ==
    loss.kind = "loss" =>
        /\ AllOf(loss.target, value)
        /\ loss.n = fetched => Len(loss.target) = Len(inputs.ids)
        /\ loss.backward => loss.targetAtBackward = loss.target

\* C6: the loss on the real batch is computed against a target of ones, the loss on
\* the fake batch against zeros and the generator loss against ones, all three on
\* the one label tensor of the iteration, and each backward() finds that tensor as
\* the loss saved it: no fill_ comes between a loss and its backward().
C6_LabelsPerLoss ==
    /\ LossTargetOk(errD_real, 1)
    /\ LossTargetOk(errD_fake, 0)
    /\ LossTargetOk(errG, 1)
    /\ err # StaleError
    /\ (pc \in IterationPcs /\ errG.kind = "loss" /\ errG.n = fetched) =>
          (errD_real.targetId = errG.targetId /\ errD_fake.targetId = errG.targetId)

C6_Witness ==
    /\ pc = "g_step" /\ errG.backward /\ label.ver = 2
    /\ errD_real.n = fetched /\ errD_fake.n = fetched /\ errG.n = fetched
    /\ errD_real.backward /\ errD_fake.backward

\* C8: the generator loss of an iteration is computed from a discriminator forward
\* pass made after that iteration's optimizer_disc.step(): the parameters it ran on
\* are those of the iteration's own update, one step newer than the ones the
\* discriminator step's fake batch was scored with.
C8_GeneratorSeesUpdatedDisc ==
    (pc \in {"g_bwd", "g_step", "record"} /\ errG.kind = "loss") =>
        /\ errG.n = fetched
        /\ errG.dver = dSteps
        /\ errG.dver = fetched
        /\ errD_fake.dver = errG.dver - 1

C8_Witness == pc = "g_step" /\ fetched = 2 /\ errG.dver = 2 /\ errD_fake.dver = 1

\* C3 as stated: no missing file is passed over in silence; a run that gets past
\* the building of the dataset had its attribute file and every image it looked for.
C3_NoMissingFileAbsorbed ==
    pc \notin {"ds_read_csv", "ds_iter", "error"} => (csvExists /\ skipped = {})

\* the images of the batch Fetch is about to read are all on disk
BatchOnDisk ==
    \A k \in 1..Len(BatchIndices(pos)) : image_files[BatchIndices(pos)[k]] \in imgOnDisk

C3_State ==
    /\ ~csvExists => (pc = "ds_read_csv" \/ (pc = "error" /\ err = "FileNotFoundError"))
    /\ (csvExists /\ pc # "ds_read_csv") =>
          /\ Range(image_files) \cap skipped = {}
          /\ Range(image_files) \cup skipped = 1..(rowIdx - 1)
          /\ skipped \cap imgOnDisk = {}
    /\ pc \in {"ds_iter", "loader"} => err = "none"

C3_Step ==
    /\ (pc = "ds_iter" /\ rowIdx' = rowIdx + 1) =>
          /\ pc' = "ds_iter" /\ err' = "none"
          /\ IF rowIdx \in imgOnDisk
             THEN image_files' = Append(image_files, rowIdx) /\ skipped' = skipped
             ELSE image_files' = image_files /\ skipped' = skipped \cup {rowIdx}
    /\ (pc = "fetch" /\ pc' # "fetch" /\ pos <= len) =>
          IF BatchOnDisk
          THEN pc' = "d_zero"
          ELSE pc' = "error" /\ err' = "FileNotFoundError"
    /\ (pc = "viz" /\ pc' = "error" /\ len > 0) =>
          /\ err' = "FileNotFoundError"
          /\ \E k \in 1..len : image_files[k] \notin imgOnDisk

\* C3, amended: a missing attribute file ends the run with the FileNotFoundError of
\* pd.read_csv, and an image of the dataset that is gone when it is read ends it
\* with the exception of Image.open; but an image listed in the attribute file that
\* is missing while the dataset is built raises nothing: the row is left out and the
\* building goes on.
C3_MissingFiles == []C3_State /\ [][C3_Step]_vars

C3_Witness == pc = "done" /\ skipped # {} /\ len = max_samples

\* one step of either loop taken inside its discriminator step
C7_Step ==
    /\ pc \in DiscStepPcs => (gradG' = gradG /\ gSteps' = gSteps)
    /\ m.pc \in {"real", "fake", "d_bwd", "d_step"} =>
          /\ m'.gradG = m.gradG
          /\ m'.log = m.log \/ m'.log[Len(m'.log)].opt = "disc"

\* C7: between discriminator.zero_grad() and optimizer_disc.step() nothing is added
\* to the gradients of the generator's parameters and the generator's optimizer
\* does not step, in the CelebA loop and in train_gan alike.
C7_DiscStepLeavesGenerator == [][C7_Step]_vars

C7_Witness ==
    /\ pc = "d_step" /\ fetched = 2
    /\ gradG = {[loss |-> "gen", n |-> 1]}
    /\ [loss |-> "fake", n |-> 2] \in gradD
    /\ m.pc = "d_step" /\ m.fetched = 2
    /\ m.gradG = {[loss |-> "gen", n |-> 1]}
    /\ [loss |-> "fake", n |-> 2] \in m.gradD

\* what the k-th optimizer step of the two-step procedure applies: the odd steps
\* are discriminator steps on the real loss plus the fake loss of their batch, the
\* even ones generator steps on the generator loss of the same batch
ExpectedStep(k) ==
    IF k % 2 = 1
    THEN [opt |-> "disc",
          applied |-> {[loss |-> "real", n |-> (k + 1) \div 2],
                       [loss |-> "fake", n |-> (k + 1) \div 2]}]
    ELSE [opt |-> "gen", applied |-> {[loss |-> "gen", n |-> k \div 2]}]

C10_EveryBatchSize ==
    sh.pc \in {"done", "error"} => (sh.pc = "done" /\ sh.x = <<sh.B, 3, IMAGE_SIZE, IMAGE_SIZE>>)

\* C10, amended: for every batch size B >= 2 the generator, in the training mode the
\* notebook keeps it in, turns a (B, Z) noise batch and B attribute rows into a
\* (B, 3, 64, 64) batch: the concatenated input has width
\* Z + num_attributes * attr_embedding_size, the width the first linear layer takes,
\* the reshape keeps B, and each transposed convolution doubles the spatial size
\* 4 -> 8 -> 16 -> 32 -> 64. With B = 1 the BatchNorm1d after the linear layer
\* raises ValueError.
C10_GeneratorShapes ==
    /\ sh.pc = "cat" => sh.x = <<sh.B, NUM_ATTRIBUTES * attr_embedding_size>>
    /\ (sh.pc = "layers" /\ sh.layer = 1) =>
          /\ sh.x = <<sh.B, Z + NUM_ATTRIBUTES * attr_embedding_size>>
          /\ sh.x[2] = gen_model[1].args[1]
    /\ (sh.pc = "layers" /\ sh.layer > 1) =>
          /\ sh.x[1] = sh.B
          /\ gen_model[sh.layer - 1].op = "Reshape" => sh.x = <<sh.B, 512, 4, 4>>
          /\ gen_model[sh.layer - 1].op = "ConvTranspose2d" =>
                /\ sh.x[3] = 2 * sh.prev[3] /\ sh.x[4] = 2 * sh.prev[4]
                /\ sh.x[3] \in {8, 16, 32, 64} /\ sh.x[4] = sh.x[3]
    /\ sh.pc = "done" => sh.x = <<sh.B, 3, IMAGE_SIZE, IMAGE_SIZE>>
    /\ sh.B >= 2 => sh.pc # "error"
    /\ sh.B = 1 =>
          /\ sh.pc # "done"
          /\ sh.pc = "error" => (sh.err = "ValueError" /\ sh.layer = 2)

C10_Witness == sh.pc = "done" /\ sh.B = 3 /\ sh.x = <<3, 3, 64, 64>>

\* the sizes after the four convolutions of a 64 x 64 input, by output channels
HalvingOf64 == {<<64, 32>>, <<128, 16>>, <<256, 8>>, <<512, 4>>}

\* the width the classifier's first linear layer is declared with
ClassifierWidth == classifier[1].args[1]

\* the forward pass on a 64 x 64 input: the sizes halve 64 -> 32 -> 16 -> 8 -> 4, the
\* flattened features are 512*4*4 wide and, with the embeddings, as wide as the
\* classifier takes
C11_On64 ==
    sh.size = IMAGE_SIZE =>
        /\ (sh.pc = "features" /\ sh.layer > 1
               /\ image_feature_extractor[sh.layer - 1].op = "Conv2d") =>
              /\ 2 * sh.x[3] = sh.prev[3] /\ sh.x[4] = sh.x[3]
              /\ <<sh.x[2], sh.x[3]>> \in HalvingOf64
        /\ sh.pc = "cat" =>
              /\ sh.features = <<sh.B, 512 * 4 * 4>>
              /\ sh.x = <<sh.B, NUM_ATTRIBUTES * attr_embedding_size>>
        /\ (sh.pc = "classifier" /\ sh.layer = 1) =>
              /\ sh.x = <<sh.B, 512 * 4 * 4 + NUM_ATTRIBUTES * attr_embedding_size>>
              /\ sh.x[2] = ClassifierWidth
        /\ sh.pc # "error"
        /\ sh.pc = "done" => sh.x = <<sh.B>>

\* C11 as stated: the 64 x 64 chain, and the concatenated width equals the
\* classifier's input width for the square size 64 and for no other.
C11_OnlySize64 ==
    /\ C11_On64
    /\ (sh.pc = "classifier" /\ sh.layer = 1) =>
          (sh.x[2] = ClassifierWidth <=> sh.size = IMAGE_SIZE)
    /\ sh.pc = "done" => sh.size = IMAGE_SIZE

\* C11, amended: for a 64 x 64 three-channel input the four convolutions (kernel 4,
\* stride 2, padding 1) halve the spatial size 64 -> 32 -> 16 -> 8 -> 4, the flattened
\* features have width 512*4*4 and, concatenated with the attribute embeddings of
\* width num_attributes * attr_embedding_size, match the classifier's declared input
\* width. Each convolution rounds the halved size down, so the widths match for the
\* square sizes 64 to 79, on which the forward pass returns, and for no other
\* square size, on which it raises.
C11_DiscriminatorShapes ==
    /\ C11_On64
    /\ (sh.pc = "features" /\ sh.layer > 1
           /\ image_feature_extractor[sh.layer - 1].op = "Conv2d") =>
          /\ sh.x[1] = sh.B
          /\ sh.x[3] = sh.prev[3] \div 2 /\ sh.x[4] = sh.x[3]
    /\ (sh.pc = "classifier" /\ sh.layer = 1) =>
          /\ sh.x[2] = sh.features[2] + NUM_ATTRIBUTES * attr_embedding_size
          /\ sh.x[2] = ClassifierWidth <=> sh.size \in IMAGE_SIZE..(IMAGE_SIZE + 15)
    /\ (sh.pc = "classifier" /\ sh.layer > 1) => sh.size \in IMAGE_SIZE..(IMAGE_SIZE + 15)
    /\ sh.pc = "done" =>
          /\ sh.size \in IMAGE_SIZE..(IMAGE_SIZE + 15)
          /\ sh.x = <<sh.B>>
          /\ Ok(sh.x) = DiscriminatorForward(<<sh.B, 3, sh.size, sh.size>>, sh.conds, TRUE)
    /\ sh.pc = "error" =>
          /\ sh.size \notin IMAGE_SIZE..(IMAGE_SIZE + 15)
          /\ sh.err = DiscriminatorForward(<<sh.B, 3, sh.size, sh.size>>, sh.conds, TRUE).err

C11_Witness ==
    /\ sh.pc = "done" /\ sh.size = IMAGE_SIZE /\ sh.B = 3
    /\ sh.features = <<3, 512 * 4 * 4>> /\ sh.x = <<3>>

\* the positions of an iteration at which its label, its latest discriminator
\* output and its noise batch exist
LabelPcs == IterationPcs \ {"d_zero", "d_label"}
OutputPcs == LabelPcs \ {"d_fwd_real"}
NoisePcs == OutputPcs \ {"d_loss_real", "d_bwd_real", "d_noise"}

\* the number of images the loader puts in the batch that ends before position p
BatchLen(p) == Min(BATCH_SIZE, len - (p - BATCH_SIZE) + 1)

\* C12: in every iteration of the CelebA loop the batch holds BATCH_SIZE images, or
\* what is left of the epoch when that is less; each of the three discriminator
\* outputs of the iteration (on the real batch, on the detached fakes, on the fakes
\* in the generator step) is a one-dimensional vector with one entry per image of
\* the batch, the label vector and the noise batch of the iteration have that
\* length too, and every loss_fn call finds its output and its label of the same
\* size.
C12_OneOutputPerImage ==
    pc \in IterationPcs =>
        /\ Len(inputs.ids) = BatchLen(pos)
        /\ Len(inputs.ids) \in 1..BATCH_SIZE
        /\ inputs.shape[1] = Len(inputs.ids)
        /\ Len(conditions) = Len(inputs.ids)
        /\ pc \in LabelPcs => (label.id = fetched /\ Len(label.vals) = Len(inputs.ids))
        /\ pc \in OutputPcs =>
              /\ Len(output.shape) = 1
              /\ output.shape[1] = Len(inputs.ids)
              /\ output.dver \in {fetched - 1, fetched}
        /\ pc \in NoisePcs => noise.shape = <<Len(inputs.ids), Z>>
        /\ pc \in NoisePcs \ {"g_fwd"} =>
              fake.shape = <<Len(inputs.ids), 3, IMAGE_SIZE, IMAGE_SIZE>>
        /\ pc \in {"d_loss_real", "d_loss_fake", "g_loss"} => LossShapesAgree(output, label)
        /\ pc = "d_loss_real" => output.graph = {"D"}
        /\ pc = "d_loss_fake" => (output.graph = {"D"} /\ output.pass = fake.pass)
        /\ pc = "g_loss" => (output.graph = {"D", "G"} /\ output.pass = fake.pass)

\* the second batch of an epoch, two images where BATCH_SIZE is three, went
\* through the whole iteration
C12_Witness ==
    /\ pc = "record" /\ pos > len /\ pos > BATCH_SIZE + 1
    /\ Len(inputs.ids) = 2 /\ Len(inputs.ids) < BATCH_SIZE
    /\ output.shape = <<2>> /\ Len(label.vals) = 2 /\ noise.shape = <<2, Z>>
    /\ errD_real.n = fetched /\ errD_fake.n = fetched /\ errG.n = fetched

\* the positions of the training cell from the first epoch on
TrainingPcs == IterationPcs \cup {"epoch", "fetch", "sample"}

\* the batches of one epoch
NumBatches == (len + BATCH_SIZE - 1) \div BATCH_SIZE

\* the epochs 1..n in order
Epochs(n) == [k \in 1..n |-> k]

C13_State ==
    /\ pc \in TrainingPcs =>
          /\ shown = Epochs(i - 1)
          /\ i \in 1..(IF pc = "epoch" THEN EPOCHS + 1 ELSE EPOCHS)
    /\ pc = "final" => shown = Epochs(EPOCHS)
    /\ pc \in IterationPcs => fetched \in ((i - 1) * NumBatches + 1)..(i * NumBatches)
    /\ pc = "fetch" => fetched \in ((i - 1) * NumBatches)..(i * NumBatches)
    /\ pc = "sample" =>
          /\ pos > len
          /\ fetched = i * NumBatches
          /\ dSteps = fetched /\ gSteps = fetched
    /\ pc \in TrainingPcs \cup {"train_begin", "final"} =>
          /\ sample_noise.kind = "noise" /\ sample_noise.shape = <<NumSamples, Z>>
          /\ sample_conditions = SampleConditionsLiteral
          /\ generations.kind = "fake" =>
                /\ generations.noise = sample_noise.id
                /\ generations.conds = sample_conditions
                /\ generations.shape = <<NumSamples, 3, IMAGE_SIZE, IMAGE_SIZE>>
                /\ generations.graph = {}

C13_Step ==
    /\ pc \in TrainingPcs =>
          /\ sample_noise' = sample_noise
          /\ sample_conditions' = sample_conditions
          /\ (shown' # shown \/ generations' # generations \/ i' # i) =>
                (pc = "sample" /\ pc' = "epoch")
    /\ (pc = "sample" /\ pc' # pc) =>
          /\ pc' = "epoch"
          /\ shown' = Append(shown, i)
          /\ i' = i + 1
          /\ fetched' = fetched /\ dSteps' = dSteps /\ gSteps' = gSteps
          /\ calls' = <<Call("G", sample_noise, sample_conditions)>>
          /\ generations'.noise = sample_noise.id
          /\ generations'.conds = sample_conditions
    /\ (pc = "epoch" /\ pc' = "fetch") => (Len(shown) = i - 1 /\ fetched = (i - 1) * NumBatches)

\* C13: in the CelebA training loop the generator is run on sample_noise and
\* sample_conditions and the result displayed exactly once per epoch: only in the
\* step that follows the last batch of the epoch, with every batch of the epoch
\* fetched and stepped on, and before the first batch of the next epoch is fetched,
\* so that during epoch i exactly the epochs 1..i-1 have been shown and after the
\* loop the epochs 1..EPOCHS; no step of the loop changes sample_noise or
\* sample_conditions, and every generation shown is made from them.
C13_SamplingPerEpoch == []C13_State /\ [][C13_Step]_vars

C13_Witness ==
    /\ pc = "final" /\ shown = Epochs(EPOCHS) /\ EPOCHS >= 2
    /\ NumBatches = 2 /\ fetched = 2 * EPOCHS
    /\ generations.noise = sample_noise.id /\ generations.conds = SampleConditionsLiteral

====
